---- MODULE Spec2Model ----
(***************************************************************************)
(* Sleep-stage consolidation pipeline of                                   *)
(* src/processing/consolidated_sleep_stages.py.                            *)
(*                                                                         *)
(* The data frame is modelled column by column: every column is a sequence *)
(* of integers, `columns` is the set of column names the frame has.        *)
(* Python row labels 0..N-1 are the indices 1..N here; the code's closed   *)
(* label slices df.loc[a:b] are the closed index ranges a..b.              *)
(***************************************************************************)
EXTENDS Integers, Naturals, Sequences, FiniteSets, TLC

VARIABLES pc, pass, columns, sleepStage, NREMpacket, REMepisode,
          NREMepisode, WAKEepisode, sleepStageConsolidated, outFile,
          firstConsolidated, sampling_rate, bouts

vars == <<pc, pass, columns, sleepStage, NREMpacket, REMepisode,
          NREMepisode, WAKEepisode, sleepStageConsolidated, outFile,
          firstConsolidated, sampling_rate, bouts>>

\* the argument and the result of get_bout_durations, which the
\* consolidation script does not use
boutVars == <<sampling_rate, bouts>>

\* ------------------------------------------------------------------------
\* Program constants
\* ------------------------------------------------------------------------
\* `run_length >= 20`
MinPacketLen == 20

\* `(gap_end - gap_start + 1) < 40`
MergeGap == 40

\* run_start is None
None == 0

\* ------------------------------------------------------------------------
\* Bounds of the explored inputs
\* ------------------------------------------------------------------------
\* number of maximal raw runs an input table is made of
MaxRuns == 5

\* number of maximal raw runs of an input table that holds the unscored
\* stage 0
MaxZeroRuns == 3

\* (stage, length) of one raw run; lengths sit on both sides of the two
\* thresholds
RunChoices ==
    { <<1, 1>>, <<1, MergeGap - 1>>, <<1, MergeGap>>,
      <<2, 1>>, <<2, MinPacketLen - 1>>, <<2, MinPacketLen>>,
      <<3, 1>> }

\* run lists in which neighbouring runs have different stages, so that each
\* entry is a maximal run of the table
RunLists ==
    UNION { { rl \in [1..n -> RunChoices] :
                \A k \in 1..(n - 1) : rl[k][1] # rl[k + 1][1] } : n \in 0..MaxRuns }

\* runs of the stage 0 that convert_sleep_stage rewrites to 1, on both sides
\* of the merge threshold
ZeroRunChoices == { <<0, 1>>, <<0, MergeGap - 1>>, <<0, MergeGap>> }

\* run lists with at least one run of stage 0
ZeroRunLists ==
    UNION { { rl \in [1..n -> RunChoices \cup ZeroRunChoices] :
                /\ \A k \in 1..(n - 1) : rl[k][1] # rl[k + 1][1]
                /\ \E k \in 1..n : rl[k][1] = 0 } : n \in 1..MaxZeroRuns }

RECURSIVE Expand(_, _)
Expand(rl, k) ==
    IF k > Len(rl) THEN << >>
    ELSE [j \in 1..rl[k][2] |-> rl[k][1]] \o Expand(rl, k + 1)

\* the three example recordings: 20 NREM between Wake; two REM runs of 5
\* with 10 Wake between them; the same with one raw NREM as third gap sample
ScenarioA == Expand(<< <<1, 2>>, <<2, 20>>, <<1, 2>> >>, 1)

ScenarioB == Expand(<< <<3, 5>>, <<1, 10>>, <<3, 5>> >>, 1)

ScenarioC == Expand(<< <<3, 5>>, <<1, 2>>, <<2, 1>>, <<1, 7>>, <<3, 5>> >>, 1)

Inputs ==
    { Expand(rl, 1) : rl \in RunLists } \cup {ScenarioA, ScenarioB, ScenarioC}
       \cup { Expand(rl, 1) : rl \in ZeroRunLists }

\* columns of the CSV read by calculate_nrem_packets
InputColumns == { {"sleepStage", "Timestamp"}, {"sleepStage"}, {"Timestamp"}, {} }

\* ------------------------------------------------------------------------
\* Helpers
\* ------------------------------------------------------------------------
\* df[col] = 0
Zeros(n) == [k \in 1..n |-> 0]

\* df.loc[start:end, col] = 1  (label slice, both ends included)
MarkRangeExclusiveEnd(col, start, end) ==
    [k \in 1..Len(col) |-> IF start <= k /\ k < end THEN 1 ELSE col[k]]

MarkRange(col, start, end) ==
    [k \in 1..Len(col) |-> IF start <= k /\ k <= end THEN 1 ELSE col[k]]

\* run_length >= 20
IsPacketLengthStrict(run_length) == run_length > MinPacketLen

IsPacketLength(run_length) == run_length >= MinPacketLen

\* one iteration of `for i, stage in enumerate(df['sleepStage'])` in
\* calculate_nrem_packets; st holds run_start and the NREMpacket column
PacketStep(stage, st, i) ==
    IF stage[i] = 2
    THEN IF st.run_start = None THEN [st EXCEPT !.run_start = i] ELSE st
    ELSE IF st.run_start # None
         THEN [run_start |-> None,
               col |-> IF IsPacketLength(i - st.run_start)
                       THEN MarkRange(st.col, st.run_start, i - 1)
                       ELSE st.col]
         ELSE st

\* the iterations lo..hi of that loop, in row order: rows lo..mid first,
\* then rows mid+1..hi from the state the first ones leave (the test on
\* run_start always holds; it makes the first half be evaluated first)
RECURSIVE PacketLoop(_, _, _, _)
PacketLoop(stage, st, lo, hi) ==
    IF lo > hi THEN st
    ELSE IF lo = hi THEN PacketStep(stage, st, lo)
    ELSE LET mid == (lo + hi) \div 2
             first == PacketLoop(stage, st, lo, mid)
         IN  IF first.run_start >= None
             THEN PacketLoop(stage, first, mid + 1, hi)
             ELSE first

\* the loop and the tail handling of calculate_nrem_packets: the NREMpacket
\* column it returns
PacketScan(stage) ==
    LET st == PacketLoop(stage, [run_start |-> None, col |-> Zeros(Len(stage))],
                         1, Len(stage))
    IN  IF st.run_start # None /\ IsPacketLength(Len(stage) + 1 - st.run_start)
        THEN MarkRange(st.col, st.run_start, Len(stage))
        ELSE st.col

\* one iteration of the run-collecting loops of calculate_rem_episodes and
\* calculate_nrem_episodes; `member` is the per-row test of the loop, st
\* holds run_start and the run list
RunStepInclusiveEnd(member, st, i) ==
    IF member[i]
    THEN IF st.run_start = None THEN [st EXCEPT !.run_start = i] ELSE st
    ELSE IF st.run_start # None
         THEN [run_start |-> None, runs |-> Append(st.runs, <<st.run_start, i>>)]
         ELSE st

RunStep(member, st, i) ==
    IF member[i]
    THEN IF st.run_start = None THEN [st EXCEPT !.run_start = i] ELSE st
    ELSE IF st.run_start # None
         THEN [run_start |-> None, runs |-> Append(st.runs, <<st.run_start, i - 1>>)]
         ELSE st

\* the iterations lo..hi of that loop, in row order: rows lo..mid first,
\* then rows mid+1..hi from the state the first ones leave (the test on
\* run_start always holds; it makes the first half be evaluated first)
RECURSIVE RunLoop(_, _, _, _)
RunLoop(member, st, lo, hi) ==
    IF lo > hi THEN st
    ELSE IF lo = hi THEN RunStep(member, st, lo)
    ELSE LET mid == (lo + hi) \div 2
             first == RunLoop(member, st, lo, mid)
         IN  IF first.run_start >= None
             THEN RunLoop(member, first, mid + 1, hi)
             ELSE first

\* the run-collecting loop with its tail handling: the list of closed runs
ScanRuns(member) ==
    LET st == RunLoop(member, [run_start |-> None, runs |-> << >>], 1, Len(member))
    IN  IF st.run_start # None
        THEN Append(st.runs, <<st.run_start, Len(member)>>)
        ELSE st.runs

\* rem_runs
RemRuns(stage) == ScanRuns([k \in 1..Len(stage) |-> stage[k] = 3])

\* nrem_runs
NremRuns(packet, rem) ==
    ScanRuns([k \in 1..Len(packet) |-> packet[k] = 1 /\ rem[k] = 0])

\* (gap_end - gap_start + 1) < 40 in calculate_rem_episodes
RemGapIsShortInclusive(gap_start, gap_end) == (gap_end - gap_start + 1) <= MergeGap

RemGapIsShort(gap_start, gap_end) == (gap_end - gap_start + 1) < MergeGap

\* (gap_end - gap_start + 1) < 40 in calculate_nrem_episodes
NremGapIsShortInclusive(gap_start, gap_end) == (gap_end - gap_start + 1) <= MergeGap

NremGapIsShort(gap_start, gap_end) == (gap_end - gap_start + 1) < MergeGap

\* (df['sleepStage'][gap_start:gap_end + 1] == 2).any()
GapHasNremNever(stage, gap_start, gap_end) == FALSE

GapHasNremAlways(stage, gap_start, gap_end) == gap_start <= gap_end

GapHasNonWake(stage, gap_start, gap_end) ==
    \E k \in gap_start..gap_end : stage[k] # 1

GapHasNrem(stage, gap_start, gap_end) ==
    \E k \in gap_start..gap_end : stage[k] = 2

\* (df['REMepisode'][gap_start:gap_end + 1] == 1).any()
GapHasRemEpisodeNever(rem, gap_start, gap_end) == FALSE

GapHasRemEpisode(rem, gap_start, gap_end) ==
    \E k \in gap_start..gap_end : rem[k] = 1

\* gap_start = previous_run[1] + 1: the gap starts after the last row of the
\* accumulated run (runs are pairs <<first row, last row>>)
RemGapStartFromEpisodeStart(previous_run) == previous_run[1] + 1

RemGapStart(previous_run) == previous_run[2] + 1

\* the merge loop of calculate_rem_episodes; returns merged_rem_runs (with
\* the last run added) and the NREMepisode column the loop has written
RECURSIVE MergeRemRuns(_, _, _, _, _)
MergeRemRuns(stage, rem_runs, k, previous_run, acc) ==
    IF k > Len(rem_runs)
    THEN [merged |-> Append(acc.merged, previous_run), nrem |-> acc.nrem]
    ELSE LET current_run == rem_runs[k]
             gap_start == RemGapStart(previous_run)
             gap_end == current_run[1] - 1
         IN  IF RemGapIsShort(gap_start, gap_end)
             THEN IF GapHasNrem(stage, gap_start, gap_end)
                  THEN MergeRemRuns(stage, rem_runs, k + 1, current_run,
                           [merged |-> Append(acc.merged, previous_run),
                            nrem |-> MarkRange(acc.nrem, gap_start, gap_end)])
                  ELSE MergeRemRuns(stage, rem_runs, k + 1,
                           <<previous_run[1], current_run[2]>>, acc)
             ELSE MergeRemRuns(stage, rem_runs, k + 1, current_run,
                      [merged |-> Append(acc.merged, previous_run), nrem |-> acc.nrem])

\* the merge loop of calculate_nrem_episodes; returns merged_nrem_runs
RECURSIVE MergeNremRuns(_, _, _, _, _)
MergeNremRuns(rem, nrem_runs, k, previous_run, merged) ==
    IF k > Len(nrem_runs)
    THEN Append(merged, previous_run)
    ELSE LET current_run == nrem_runs[k]
             gap_start == previous_run[2] + 1
             gap_end == current_run[1] - 1
         IN  IF NremGapIsShort(gap_start, gap_end)
             THEN IF GapHasRemEpisode(rem, gap_start, gap_end)
                  THEN MergeNremRuns(rem, nrem_runs, k + 1, current_run,
                                     Append(merged, previous_run))
                  ELSE MergeNremRuns(rem, nrem_runs, k + 1,
                                     <<previous_run[1], current_run[2]>>, merged)
             ELSE MergeNremRuns(rem, nrem_runs, k + 1, current_run,
                                Append(merged, previous_run))

\* merged_nrem_runs, empty when nrem_runs is empty
MergedNremRunsWithoutLast(rem, nrem_runs) ==
    IF nrem_runs = << >> THEN << >>
    ELSE LET merged == MergeNremRuns(rem, nrem_runs, 2, nrem_runs[1], << >>)
         IN  SubSeq(merged, 1, Len(merged) - 1)

MergedNremRuns(rem, nrem_runs) ==
    IF nrem_runs = << >> THEN << >>
    ELSE MergeNremRuns(rem, nrem_runs, 2, nrem_runs[1], << >>)

\* for start, end in runs: df.loc[start:end, col] = 1
RECURSIVE MarkRuns(_, _, _)
MarkRuns(col, runs, k) ==
    IF k > Len(runs) THEN col
    ELSE MarkRuns(MarkRange(col, runs[k][1], runs[k][2]), runs, k + 1)

\* ((REMepisode == 0) & (NREMepisode == 0)).astype(int)
WakeFlagIgnoringNrem(rem, nrem) == IF rem = 0 THEN 1 ELSE 0

WakeFlagIgnoringRem(rem, nrem) == IF nrem = 0 THEN 1 ELSE 0

WakeFlag(rem, nrem) == IF rem = 0 /\ nrem = 0 THEN 1 ELSE 0

\* the three masked writes of consolidate_sleep_stages, in program order
ConsolidatedCodeSwapped(wake, nrem, rem) ==
    IF rem = 1 THEN 2 ELSE IF nrem = 1 THEN 3 ELSE IF wake = 1 THEN 1 ELSE 0

ConsolidatedCodeWakeLast(wake, nrem, rem) ==
    LET c0 == 0
        c1 == IF nrem = 1 THEN 2 ELSE c0
        c2 == IF rem = 1 THEN 3 ELSE c1
    IN  IF wake = 1 THEN 1 ELSE c2

ConsolidatedCode(wake, nrem, rem) ==
    LET c0 == 0
        c1 == IF wake = 1 THEN 1 ELSE c0
        c2 == IF nrem = 1 THEN 2 ELSE c1
    IN  IF rem = 1 THEN 3 ELSE c2

\* 'sleepStage' not in df.columns or 'Timestamp' not in df.columns
RequiredColumnsMissingStageOnly(cols) == "sleepStage" \notin cols

RequiredColumnsMissing(cols) ==
    "sleepStage" \notin cols \/ "Timestamp" \notin cols

\* the columns removed by df.drop(columns=[...])
ScratchColumnsWithoutPacket == {"WAKEepisode", "NREMepisode", "REMepisode"}

ScratchColumns == {"NREMpacket", "WAKEepisode", "NREMepisode", "REMepisode"}

\* the output file before df.to_csv
NoFile == [cols |-> {"none"}, sleepStage |-> << >>, sleepStageConsolidated |-> << >>]

\* df.to_csv(output_file_name, index=False): the file holds the frame
WrittenFileNone(cols, stage, consolidated) == NoFile

WrittenFile(cols, stage, consolidated) ==
    [cols |-> cols, sleepStage |-> stage, sleepStageConsolidated |-> consolidated]

\* ------------------------------------------------------------------------
\* Initial state: the script is about to read one input table
\* ------------------------------------------------------------------------
Init ==
    /\ pc = "packets"
    /\ pass = 1
    /\ columns \in InputColumns
    /\ sleepStage \in (IF "sleepStage" \in columns THEN Inputs ELSE { << >> })
    /\ NREMpacket = << >>
    /\ REMepisode = << >>
    /\ NREMepisode = << >>
    /\ WAKEepisode = << >>
    /\ sleepStageConsolidated = << >>
    /\ outFile = NoFile
    /\ firstConsolidated = << >>
    /\ sampling_rate = 1
    /\ bouts = << >>

\* ------------------------------------------------------------------------
\* Operations
\* ------------------------------------------------------------------------
\* calculate_nrem_packets(file_path)
CalculateNremPackets ==
    /\ pc = "packets"
    /\ IF RequiredColumnsMissing(columns)
       THEN /\ pc' = "ValueError"
            /\ UNCHANGED <<columns, NREMpacket>>
       ELSE /\ NREMpacket' = PacketScan(sleepStage)
            /\ columns' = columns \cup {"NREMpacket"}
            /\ pc' = "rem"
    /\ UNCHANGED <<pass, sleepStage, REMepisode, NREMepisode, WAKEepisode,
                   sleepStageConsolidated, outFile, firstConsolidated, boutVars>>

\* calculate_rem_episodes(df)
CalculateRemEpisodes ==
    /\ pc = "rem"
    /\ columns' = columns \cup {"REMepisode", "NREMepisode"}
    /\ LET rem_runs == RemRuns(sleepStage)
           zeros == Zeros(Len(sleepStage))
       IN  IF rem_runs = << >>
           THEN \* rem_runs[0] on an empty list
                /\ pc' = "IndexError"
                /\ REMepisode' = zeros
                /\ NREMepisode' = zeros
           ELSE LET res == MergeRemRuns(sleepStage, rem_runs, 2, rem_runs[1],
                                        [merged |-> << >>, nrem |-> zeros])
                IN  /\ REMepisode' = MarkRuns(zeros, res.merged, 1)
                    /\ NREMepisode' = res.nrem
                    /\ pc' = "nrem"
    /\ UNCHANGED <<pass, sleepStage, NREMpacket, WAKEepisode,
                   sleepStageConsolidated, outFile, firstConsolidated, boutVars>>

\* calculate_nrem_episodes(df)
CalculateNremEpisodes ==
    /\ pc = "nrem"
    /\ LET base == IF "NREMepisode" \in columns THEN NREMepisode
                   ELSE Zeros(Len(sleepStage))
           nrem_runs == NremRuns(NREMpacket, REMepisode)
       IN  NREMepisode' = MarkRuns(base, MergedNremRuns(REMepisode, nrem_runs), 1)
    /\ columns' = columns \cup {"NREMepisode"}
    /\ pc' = "wake"
    /\ UNCHANGED <<pass, sleepStage, NREMpacket, REMepisode, WAKEepisode,
                   sleepStageConsolidated, outFile, firstConsolidated, boutVars>>

\* calculate_wake_episodes(df)
CalculateWakeEpisodes ==
    /\ pc = "wake"
    /\ WAKEepisode' = [k \in 1..Len(sleepStage) |-> WakeFlag(REMepisode[k], NREMepisode[k])]
    /\ columns' = columns \cup {"WAKEepisode"}
    /\ pc' = "consolidate"
    /\ UNCHANGED <<pass, sleepStage, NREMpacket, REMepisode, NREMepisode,
                   sleepStageConsolidated, outFile, firstConsolidated, boutVars>>

\* consolidate_sleep_stages(df, output_file_name)
ConsolidateSleepStages ==
    /\ pc = "consolidate"
    /\ sleepStageConsolidated' =
           [k \in 1..Len(sleepStage) |->
               ConsolidatedCode(WAKEepisode[k], NREMepisode[k], REMepisode[k])]
    /\ columns' = (columns \cup {"sleepStageConsolidated"}) \ ScratchColumns
    /\ outFile' = WrittenFile(columns', sleepStage, sleepStageConsolidated')
    /\ NREMpacket' = << >>
    /\ WAKEepisode' = << >>
    /\ NREMepisode' = << >>
    /\ REMepisode' = << >>
    /\ pc' = "done"
    /\ UNCHANGED <<pass, sleepStage, firstConsolidated, boutVars>>

\* a second run of the script on a table whose sleepStage column holds the
\* consolidated codes of the first run
Rerun ==
    /\ pc = "done"
    /\ pass = 1
    /\ pass' = 2
    /\ firstConsolidated' = sleepStageConsolidated
    /\ sleepStage' = sleepStageConsolidated
    /\ columns' = {"sleepStage", "Timestamp"}
    /\ NREMpacket' = << >>
    /\ REMepisode' = << >>
    /\ NREMepisode' = << >>
    /\ WAKEepisode' = << >>
    /\ sleepStageConsolidated' = << >>
    /\ outFile' = NoFile
    /\ pc' = "packets"
    /\ UNCHANGED boutVars

Next ==
    \/ CalculateNremPackets
    \/ CalculateRemEpisodes
    \/ CalculateNremEpisodes
    \/ CalculateWakeEpisodes
    \/ ConsolidateSleepStages
    \/ Rerun

Spec == Init /\ [][Next]_vars

\* ------------------------------------------------------------------------
\* consolidate_sleep_stages called on its own, on a frame whose three flag
\* columns hold arbitrary 0/1 values
\* ------------------------------------------------------------------------
\* number of rows of such a frame
MaxFlagRows == 3

InitConsolidate ==
    /\ pc = "consolidate"
    /\ pass = 1
    /\ columns = {"sleepStage", "Timestamp"} \cup ScratchColumns
    /\ \E n \in 1..MaxFlagRows :
          /\ sleepStage = [k \in 1..n |-> 1]
          /\ NREMpacket = Zeros(n)
          /\ REMepisode \in [1..n -> {0, 1}]
          /\ NREMepisode \in [1..n -> {0, 1}]
          /\ WAKEepisode \in [1..n -> {0, 1}]
    /\ sleepStageConsolidated = << >>
    /\ outFile = NoFile
    /\ firstConsolidated = << >>
    /\ sampling_rate = 1
    /\ bouts = << >>

NextConsolidate == ConsolidateSleepStages

SpecConsolidate == InitConsolidate /\ [][NextConsolidate]_vars

\* ------------------------------------------------------------------------
\* get_bout_durations(df, sampling_rate, df_name) called on a scored table
\* ------------------------------------------------------------------------
\* number of rows of the table
MaxBoutRows == 4

\* sampling rates (Hz) the function is called with
SamplingRates == {1, 2}

\* (samples) / sampling_rate, kept as the pair <<samples, sampling_rate>>
Quotient(samples, rate) == <<samples, rate>>

\* np.where(df['sleepStage'].diff() != 0)[0]: the 0-based positions whose
\* difference with the row before is not 0. The difference of the first row
\* is NaN and NaN != 0 holds, so position 0 is always one of them.
StageChanges(stage) ==
    { i \in 0..(Len(stage) - 1) : i = 0 \/ stage[i + 1] - stage[i] # 0 }

\* `for stage_change in stage_changes`, positions taken in increasing
\* order from i on; st holds previous_time, previous_stage and the rows
\* appended to bout_durations and bout_stages
RECURSIVE BoutLoop(_, _, _, _)
BoutLoop(stage, rate, i, st) ==
    IF i > Len(stage) - 1 THEN st
    ELSE IF i \in StageChanges(stage)
         THEN BoutLoop(stage, rate, i + 1,
                  [previous_time |-> i,
                   previous_stage |-> stage[i + 1],
                   rows |-> Append(st.rows,
                               [BoutDuration |-> Quotient(i - st.previous_time, rate),
                                SleepStage |-> st.previous_stage])])
         ELSE BoutLoop(stage, rate, i + 1, st)

\* the frame of BoutDuration / SleepStage rows returned for df_name
BoutDurationsWithStage(stage, rate) ==
    LET st == BoutLoop(stage, rate, 0,
                       [previous_time |-> 0, previous_stage |-> stage[1],
                        rows |-> << >>])
    IN  Append(st.rows,
               [BoutDuration |-> Quotient(Len(stage) - st.previous_time, rate),
                SleepStage |-> st.previous_stage])

InitBouts ==
    /\ pc = "bouts"
    /\ pass = 1
    /\ columns = {"sleepStage"}
    /\ \E n \in 0..MaxBoutRows : sleepStage \in [1..n -> {1, 2, 3}]
    /\ sampling_rate \in SamplingRates
    /\ bouts = << >>
    /\ NREMpacket = << >>
    /\ REMepisode = << >>
    /\ NREMepisode = << >>
    /\ WAKEepisode = << >>
    /\ sleepStageConsolidated = << >>
    /\ outFile = NoFile
    /\ firstConsolidated = << >>

\* df['sleepStage'].iloc[0] raises IndexError on a table without rows
GetBoutDurations ==
    /\ pc = "bouts"
    /\ IF sleepStage = << >>
       THEN /\ pc' = "bouts_IndexError"
            /\ bouts' = bouts
       ELSE /\ pc' = "bouts_done"
            /\ bouts' = BoutDurationsWithStage(sleepStage, sampling_rate)
    /\ UNCHANGED <<pass, columns, sleepStage, NREMpacket, REMepisode,
                   NREMepisode, WAKEepisode, sleepStageConsolidated, outFile,
                   firstConsolidated, sampling_rate>>

NextBouts == GetBoutDurations

SpecBouts == InitBouts /\ [][NextBouts]_vars

\* ------------------------------------------------------------------------
\* Properties
\* ------------------------------------------------------------------------
Ones(n) == [k \in 1..n |-> 1]

Rows == 1..Len(sleepStage)

\* the table made of the given raw runs
Table(rl) == Expand(rl, 1)

\* rows a < b hold raw REM and no row between them does: a ends one raw REM
\* run and b starts the next one
ConsecutiveRemRuns(a, b) ==
    /\ sleepStage[a] = 3
    /\ sleepStage[b] = 3
    /\ a + 1 < b
    /\ \A j \in (a + 1)..(b - 1) : sleepStage[j] # 3

\* C1: once the four flag passes have run, every sample has exactly one of
\* WAKEepisode, NREMepisode, REMepisode equal to 1, and after
\* consolidate_sleep_stages every sample has a code in {1,2,3}.
C1_ExactlyOneFlagAndCode ==
    /\ pc = "consolidate" =>
          \A k \in Rows :
             /\ {WAKEepisode[k], NREMepisode[k], REMepisode[k]} \subseteq {0, 1}
             /\ WAKEepisode[k] + NREMepisode[k] + REMepisode[k] = 1
    /\ pc = "done" =>
          /\ Len(sleepStageConsolidated) = Len(sleepStage)
          /\ \A k \in Rows : sleepStageConsolidated[k] \in {1, 2, 3}

\* a completed run whose consolidated column holds all three codes
C1_Witness ==
    /\ pc = "done"
    /\ pass = 1
    /\ sleepStage = Table(<< <<2, 20>>, <<3, 1>>, <<1, 40>> >>)
    /\ sleepStageConsolidated = Table(<< <<2, 20>>, <<3, 1>>, <<1, 40>> >>)

\* C2: after calculate_rem_episodes and calculate_nrem_episodes no sample has
\* REMepisode = 1 and NREMepisode = 1 together.
C2_RemNremDisjoint ==
    pc \in {"wake", "consolidate"} =>
       \A k \in Rows : ~(REMepisode[k] = 1 /\ NREMepisode[k] = 1)

\* two packets one REM sample apart: the short gap is not merged over the
\* REM episode
C2_Witness ==
    /\ pc = "wake"
    /\ sleepStage = Table(<< <<2, 20>>, <<3, 1>>, <<2, 20>> >>)
    /\ REMepisode = Zeros(20) \o <<1>> \o Zeros(20)
    /\ NREMepisode = Ones(20) \o <<0>> \o Ones(20)

\* C3: NREMpacket = 1 exactly on the samples that lie in a window of
\* MinPacketLen consecutive raw NREM samples, i.e. in a maximal raw NREM run
\* of length >= 20, wherever the run ends.
C3_PacketIffLongRun ==
    pc = "rem" =>
       \A k \in Rows :
          NREMpacket[k] = 1 <=>
             \E s \in (k - MinPacketLen + 1)..k :
                /\ s >= 1
                /\ s + MinPacketLen - 1 <= Len(sleepStage)
                /\ \A j \in s..(s + MinPacketLen - 1) : sleepStage[j] = 2

\* a run of 19 left unflagged, and a run of 20 that ends at the last sample
\* flagged from its first to its last sample
C3_Witness ==
    /\ pc = "rem"
    /\ sleepStage = Table(<< <<2, 19>>, <<1, 1>>, <<2, 20>> >>)
    /\ NREMpacket = Zeros(20) \o Ones(20)

\* C4: two consecutive raw REM runs with a gap of exactly 40 samples are not
\* merged (the gap keeps REMepisode = 0); with a gap of exactly 39 samples
\* holding no raw NREM they are merged (runs and gap get REMepisode = 1).
C4_RemMergeBoundary ==
    pc = "nrem" =>
       /\ \A a \in Rows :
             (a + MergeGap + 1 <= Len(sleepStage) /\ ConsecutiveRemRuns(a, a + MergeGap + 1))
                => \A j \in (a + 1)..(a + MergeGap) : REMepisode[j] = 0
       /\ \A a \in Rows :
             ( /\ a + MergeGap <= Len(sleepStage)
               /\ ConsecutiveRemRuns(a, a + MergeGap)
               /\ \A j \in (a + 1)..(a + MergeGap - 1) : sleepStage[j] # 2 )
                => \A j \in a..(a + MergeGap) : REMepisode[j] = 1

\* REM, 39 Wake, REM, 40 Wake, REM: the first two runs merged, the third apart
C4_Witness ==
    /\ pc = "nrem"
    /\ sleepStage = Table(<< <<3, 1>>, <<1, 39>>, <<3, 1>>, <<1, 40>>, <<3, 1>> >>)
    /\ REMepisode = Ones(41) \o Zeros(40) \o <<1>>

\* C5: two consecutive raw REM runs whose gap is shorter than 40 samples and
\* holds a raw NREM sample are not merged: the gap keeps REMepisode = 0.
C5_NremBlocksRemMerge ==
    pc = "nrem" =>
       \A a \in Rows : \A g \in 1..(MergeGap - 1) :
          ( /\ a + g + 1 <= Len(sleepStage)
            /\ ConsecutiveRemRuns(a, a + g + 1)
            /\ \E j \in (a + 1)..(a + g) : sleepStage[j] = 2 )
             => \A j \in (a + 1)..(a + g) : REMepisode[j] = 0

\* REM, Wake, NREM, Wake, REM: a 3-sample gap with one raw NREM, not merged
C5_Witness ==
    /\ pc = "nrem"
    /\ sleepStage = <<3, 1, 2, 1, 3>>
    /\ REMepisode = <<1, 0, 0, 0, 1>>

\* rows a < b are eligible packet samples (NREMpacket = 1, REMepisode = 0)
\* and no row between them is: a ends one eligible run, b starts the next
ConsecutiveEligibleRuns(a, b) ==
    /\ NREMpacket[a] = 1 /\ REMepisode[a] = 0
    /\ NREMpacket[b] = 1 /\ REMepisode[b] = 0
    /\ a + 1 < b
    /\ \A j \in (a + 1)..(b - 1) : ~(NREMpacket[j] = 1 /\ REMepisode[j] = 0)

\* C6: after calculate_nrem_episodes two consecutive eligible packet runs
\* lie in one NREM episode (every sample between them has NREMepisode = 1)
\* exactly when their gap is shorter than 40 and holds no REMepisode sample.
C6_NremMergeIff ==
    pc = "wake" =>
       \A a \in Rows :
          (NREMpacket[a] = 1 /\ REMepisode[a] = 0) =>
             \A b \in (a + 2)..Len(sleepStage) :
                ConsecutiveEligibleRuns(a, b) =>
                   ( (\A j \in (a + 1)..(b - 1) : NREMepisode[j] = 1)
                     <=> ( /\ b - a - 1 < MergeGap
                           /\ \A j \in (a + 1)..(b - 1) : REMepisode[j] = 0 ) )

\* packet, 39 Wake, packet merged into one episode; the next packet, one REM
\* sample further, stays apart
C6_Witness ==
    /\ pc = "wake"
    /\ sleepStage = Table(<< <<2, 20>>, <<1, 39>>, <<2, 20>>, <<3, 1>>, <<2, 20>> >>)
    /\ NREMepisode = Ones(79) \o <<0>> \o Ones(20)

\* C7: after calculate_wake_episodes, WAKEepisode = 1 exactly on the samples
\* with REMepisode = 0 and NREMepisode = 0.
C7_WakeIsComplement ==
    pc = "consolidate" =>
       \A k \in Rows :
          /\ WAKEepisode[k] \in {0, 1}
          /\ WAKEepisode[k] = 1 <=> (REMepisode[k] = 0 /\ NREMepisode[k] = 0)

\* a table with an NREM episode, a REM episode and a Wake stretch
C7_Witness ==
    /\ pc = "consolidate"
    /\ sleepStage = Table(<< <<1, 1>>, <<2, 20>>, <<3, 1>> >>)
    /\ WAKEepisode = <<1>> \o Zeros(21)
    /\ NREMepisode = <<0>> \o Ones(20) \o <<0>>

\* C8: consolidate_sleep_stages gives a sample the code 1 if its WAKEepisode
\* flag is set, 2 if its NREMepisode flag is set, 3 if its REMepisode flag
\* is set.
C8_CodeFollowsFlags ==
    [][ pc = "consolidate" =>
           \A k \in Rows :
              /\ WAKEepisode[k] = 1 => sleepStageConsolidated'[k] = 1
              /\ NREMepisode[k] = 1 => sleepStageConsolidated'[k] = 2
              /\ REMepisode[k] = 1 => sleepStageConsolidated'[k] = 3 ]_vars

\* a consolidated table in which a marked REM gap became NREM
C8_Witness ==
    /\ pc = "done"
    /\ pass = 1
    /\ sleepStage = <<1, 3, 2, 1, 3>>
    /\ sleepStageConsolidated = <<1, 3, 2, 2, 3>>

\* C9: the second run, fed with the consolidated codes of the first, ends
\* with the same consolidated column.
C9_Idempotent ==
    (pass = 2 /\ pc = "done") => sleepStageConsolidated = firstConsolidated

\* a second run completed on a first result that differs from its raw input
C9_Witness ==
    /\ pass = 2
    /\ pc = "done"
    /\ firstConsolidated = <<3, 2, 2, 2, 3>>
    /\ sleepStageConsolidated = <<3, 2, 2, 2, 3>>

\* C10: on a table without raw REM, calculate_rem_episodes returns normally
\* with REMepisode = 0 on every sample.
C10_NoRemReturnsAllFalse ==
    ( /\ "REMepisode" \in columns
      /\ \A k \in Rows : sleepStage[k] # 3 )
       => ( /\ pc # "IndexError"
            /\ \A k \in Rows : REMepisode[k] = 0 )

\* row k is an eligible packet sample of calculate_nrem_episodes
EligiblePacket(k) == NREMpacket[k] = 1 /\ REMepisode[k] = 0

\* C11: when no sample is an eligible packet, calculate_nrem_episodes
\* returns with NREMepisode = 0 on every sample.
C11_NoEligibleAllFalse ==
    (pc = "wake" /\ \A k \in Rows : ~EligiblePacket(k))
       => \A k \in Rows : NREMepisode[k] = 0

\* C12: consolidate_sleep_stages fails, without assigning codes or writing
\* the file, when some sample matches none or more than one of the flags.
C12_ConsolidateChecksFlags ==
    [][ ( /\ pc = "consolidate"
          /\ \E k \in Rows : WAKEepisode[k] + NREMepisode[k] + REMepisode[k] # 1 )
           => ( /\ pc' # "done"
                /\ sleepStageConsolidated' = << >>
                /\ outFile' = NoFile ) ]_vars

\* C13: on a table with the required columns and no rows the packet detector
\* fails (it does not return a frame to the next stage), and no output is
\* written.
C13_EmptyInputRejected ==
    ( /\ Len(sleepStage) = 0
      /\ "sleepStage" \in columns
      /\ "Timestamp" \in columns )
       => ( /\ pc \notin {"rem", "nrem", "wake", "consolidate", "done", "IndexError"}
            /\ outFile = NoFile )

\* C14: when the table lacks sleepStage or Timestamp the run stops in
\* calculate_nrem_packets with an error: no derived column exists and no
\* output is written.
C14_MissingColumnFailsFast ==
    ("sleepStage" \notin columns \/ "Timestamp" \notin columns)
       => ( /\ pc \in {"packets", "ValueError"}
            /\ columns \cap (ScratchColumns \cup {"sleepStageConsolidated"}) = {}
            /\ NREMpacket = << >>
            /\ REMepisode = << >>
            /\ NREMepisode = << >>
            /\ WAKEepisode = << >>
            /\ sleepStageConsolidated = << >>
            /\ outFile = NoFile )

\* a table with rows and no Timestamp column, stopped by the ValueError
C14_Witness ==
    /\ pc = "ValueError"
    /\ columns = {"sleepStage"}
    /\ sleepStage = ScenarioA
    /\ outFile = NoFile

\* C15: no stage of the run changes sleepStage, and the frame returned and
\* written by consolidate_sleep_stages has the rows of the input, the added
\* sleepStageConsolidated column and none of the scratch columns.
C15_OutputFrame ==
    [][ /\ pc \in {"packets", "rem", "nrem", "wake", "consolidate"}
           => sleepStage' = sleepStage
        /\ pc = "consolidate"
           => ( /\ pc' = "done"
                /\ columns' = {"sleepStage", "Timestamp", "sleepStageConsolidated"}
                /\ Len(sleepStageConsolidated') = Len(sleepStage)
                /\ outFile'.cols = columns'
                /\ outFile'.sleepStage = sleepStage
                /\ outFile'.sleepStageConsolidated = sleepStageConsolidated' ) ]_vars

\* the written frame of a completed run
C15_Witness ==
    /\ pc = "done"
    /\ pass = 1
    /\ sleepStage = ScenarioB
    /\ columns = {"sleepStage", "Timestamp", "sleepStageConsolidated"}
    /\ outFile.sleepStage = ScenarioB
    /\ Len(outFile.sleepStageConsolidated) = 20

\* C16: every sample with NREMepisode = 1 is an eligible packet sample or
\* lies in a gap shorter than 40 between two eligible packet samples.
C16_NremOnlyFromPackets ==
    pc \in {"wake", "consolidate"} =>
       \A k \in Rows :
          NREMepisode[k] = 1 =>
             \/ EligiblePacket(k)
             \/ \E a \in 1..(k - 1) : \E b \in (k + 1)..Len(sleepStage) :
                   /\ b - a - 1 < MergeGap
                   /\ EligiblePacket(a)
                   /\ EligiblePacket(b)

\* C17: scenario A (2 Wake, 20 NREM, 2 Wake) completes, flags the 20 NREM
\* samples as packet and is consolidated to itself.
C17_ScenarioA ==
    (sleepStage = ScenarioA /\ "sleepStage" \in columns /\ "Timestamp" \in columns)
       => ( /\ pc \notin {"IndexError", "ValueError"}
            /\ pc = "rem" => NREMpacket = <<0, 0>> \o Ones(20) \o <<0, 0>>
            /\ pc = "done" => sleepStageConsolidated = ScenarioA )

\* C18: scenario B (REM 5, Wake 10, REM 5) completes, the two runs and the
\* gap form one REM episode and all 20 samples are consolidated to 3.
C18_ScenarioB ==
    (sleepStage = ScenarioB /\ "sleepStage" \in columns /\ "Timestamp" \in columns)
       => ( /\ pc \notin {"IndexError", "ValueError"}
            /\ pc \in {"nrem", "wake", "consolidate"} => REMepisode = Ones(20)
            /\ pc = "done" => sleepStageConsolidated = [k \in 1..20 |-> 3] )

\* scenario B consolidated
C18_Witness ==
    /\ pc = "done"
    /\ pass = 1
    /\ sleepStage = ScenarioB
    /\ sleepStageConsolidated = [k \in 1..20 |-> 3]

\* C19: scenario C (scenario B with one raw NREM as third gap sample): the
\* REM runs are not merged, the NREM sample is no packet and the 10 gap
\* samples are consolidated to Wake.
C19_ScenarioC ==
    sleepStage = ScenarioC
       => ( /\ pc = "rem" => NREMpacket = Zeros(20)
            /\ pc \in {"nrem", "wake", "consolidate"}
                  => REMepisode = Ones(5) \o Zeros(10) \o Ones(5)
            /\ pc = "done"
                  => sleepStageConsolidated
                        = Expand(<< <<3, 5>>, <<1, 10>>, <<3, 5>> >>, 1) )

\* C20: the output file exists exactly when the run has completed: a run
\* that raised an error has written nothing, and nothing runs after the
\* write.
C20_WriteIsLast ==
    /\ pc = "done" <=> outFile # NoFile
    /\ pc \in {"ValueError", "IndexError"} => outFile = NoFile

\* a run that failed after its first stage and left no output
C20_Witness ==
    /\ pc = "IndexError"
    /\ sleepStage = ScenarioA
    /\ "NREMpacket" \in columns
    /\ outFile = NoFile


\* rows holding raw REM
RawRemRows == {k \in Rows : sleepStage[k] = 3}

\* C21: when calculate_rem_episodes closes a REM run without merging it over
\* a short gap, the gap samples it marks NREMepisode = 1 are exactly the gap
\* samples whose raw sleepStage is 2; no other sample is marked by this pass.
C21_GapMarksOnlyRawNrem ==
    pc = "nrem" =>
       /\ \A k \in Rows : NREMepisode[k] = 1 => sleepStage[k] = 2
       /\ \A a, b \in RawRemRows :
             ( /\ ConsecutiveRemRuns(a, b)
               /\ b - a - 1 < MergeGap
               /\ \E j \in (a + 1)..(b - 1) : sleepStage[j] = 2 )
                => \A j \in (a + 1)..(b - 1) :
                      NREMepisode[j] = 1 <=> sleepStage[j] = 2

\* first and last rows of the maximal raw REM runs
RemRunFirstRows ==
    {k \in Rows : sleepStage[k] = 3 /\ (k = 1 \/ sleepStage[k - 1] # 3)}

RemRunLastRows ==
    {k \in Rows : sleepStage[k] = 3
                    /\ (k = Len(sleepStage) \/ sleepStage[k + 1] # 3)}

\* C22: REM runs chained by gaps that are each shorter than 40 samples and
\* hold no raw NREM form one REM episode from the first row of the first run
\* to the last row of the last one, whatever the total span: each gap is
\* measured from the end of the accumulated run.
C22_RemMergeChained ==
    pc = "nrem" =>
       \A a \in RemRunFirstRows : \A b \in RemRunLastRows :
          ( /\ a < b
            /\ \A k \in a..b : sleepStage[k] # 2
            /\ \A c \in RemRunLastRows : \A d \in RemRunFirstRows :
                  (a <= c /\ d <= b /\ ConsecutiveRemRuns(c, d))
                     => d - c - 1 < MergeGap )
             => \A k \in a..b : REMepisode[k] = 1

\* three REM runs 39 Wake samples apart: one episode spanning 81 samples
C22_Witness ==
    /\ pc = "nrem"
    /\ sleepStage = Table(<< <<3, 1>>, <<1, 39>>, <<3, 1>>, <<1, 39>>, <<3, 1>> >>)
    /\ REMepisode = Ones(81)

\* C23: once calculate_rem_episodes has run, no sample with REMepisode = 1
\* has raw sleepStage 2, so no NREMpacket sample is inside a REM episode and
\* the test REMepisode == 0 of calculate_nrem_episodes keeps every packet
\* sample.
C23_RemEpisodeHasNoRawNrem ==
    pc \in {"nrem", "wake", "consolidate"} =>
       \A k \in Rows :
          /\ REMepisode[k] = 1 => sleepStage[k] # 2
          /\ NREMpacket[k] = 1 => REMepisode[k] = 0

\* a packet of 20 between two REM samples: the REM runs stay apart and the
\* packet is outside both episodes
C23_Witness ==
    /\ pc = "nrem"
    /\ sleepStage = Table(<< <<3, 1>>, <<2, 20>>, <<3, 1>> >>)
    /\ NREMpacket = <<0>> \o Ones(20) \o <<0>>
    /\ REMepisode = <<1>> \o Zeros(20) \o <<1>>

\* C24: on every input on which the pipeline completes, every sample whose
\* raw sleepStage is 3 is consolidated to code 3, whatever the length of its
\* REM run.
C24_RawRemKeepsCode3 ==
    pc = "done" =>
       \A k \in Rows : sleepStage[k] = 3 => sleepStageConsolidated[k] = 3

\* a single REM sample between Wake samples keeps code 3
C24_Witness ==
    /\ pc = "done"
    /\ pass = 1
    /\ sleepStage = <<1, 3, 1>>
    /\ sleepStageConsolidated = <<1, 3, 1>>

\* C25: on every input on which the pipeline completes, every sample with
\* NREMpacket = 1 is consolidated to code 2.
C25_PacketGetsCode2 ==
    [][pc = "consolidate" =>
          \A k \in 1..Len(NREMpacket) :
             NREMpacket[k] = 1 => sleepStageConsolidated'[k] = 2]_vars

\* a REM sample followed by a packet of 20: the packet is consolidated to 2
C25_Witness ==
    /\ pc = "done"
    /\ pass = 1
    /\ sleepStage = Table(<< <<3, 1>>, <<2, 20>> >>)
    /\ sleepStageConsolidated = Table(<< <<3, 1>>, <<2, 20>> >>)

\* C26: every sample of a maximal raw Wake run of at least 40 samples is
\* consolidated to code 1 (a raw Wake sample with another code lies in a
\* Wake run shorter than 40).
C26_LongWakeKeepsCode1 ==
    pc = "done" =>
       \A k \in Rows :
          (sleepStage[k] = 1 /\ sleepStageConsolidated[k] # 1)
             => \A a \in (k - MergeGap + 1)..k :
                   ~( /\ a >= 1
                      /\ a + MergeGap - 1 <= Len(sleepStage)
                      /\ \A j \in a..(a + MergeGap - 1) : sleepStage[j] = 1 )

\* 40 Wake samples between two REM samples keep code 1
C26_Witness ==
    /\ pc = "done"
    /\ pass = 1
    /\ sleepStage = Table(<< <<3, 1>>, <<1, 40>>, <<3, 1>> >>)
    /\ sleepStageConsolidated = Table(<< <<3, 1>>, <<1, 40>>, <<3, 1>> >>)

\* C27: every maximal run of consolidated code 3 begins and ends on a sample
\* whose raw sleepStage is 3.
C27_RemEpisodeEndsOnRawRem ==
    pc = "done" =>
       \A k \in Rows :
          sleepStageConsolidated[k] = 3 =>
             /\ (k = 1 \/ sleepStageConsolidated[k - 1] # 3) => sleepStage[k] = 3
             /\ (k = Len(sleepStage) \/ sleepStageConsolidated[k + 1] # 3)
                   => sleepStage[k] = 3

\* REM, Wake, REM, 40 Wake: the episode covers the first three samples and
\* stops on the second REM sample
C27_Witness ==
    /\ pc = "done"
    /\ pass = 1
    /\ sleepStage = Table(<< <<3, 1>>, <<1, 1>>, <<3, 1>>, <<1, 40>> >>)
    /\ sleepStageConsolidated = <<3, 3, 3>> \o Ones(40)


\* C28: a raw sleepStage value other than 2 and 3 (0 for example) is neither
\* NREM nor REM. It raises no error (the only failures are a missing column
\* and a table without raw REM), it starts no run (packets hold raw 2 only,
\* REM episodes start on raw 3), it blocks no merge (a gap shorter than 40
\* without raw 2 is merged whatever else it holds), and the consolidated
\* codes stay in {1,2,3}.
C28_OtherValuesAreNeither ==
    /\ pc = "ValueError" => ~({"sleepStage", "Timestamp"} \subseteq columns)
    /\ pc = "IndexError" => RawRemRows = {}
    /\ pc = "nrem" =>
          /\ \A k \in Rows :
                /\ NREMpacket[k] = 1 => sleepStage[k] = 2
                /\ (REMepisode[k] = 1 /\ (k = 1 \/ REMepisode[k - 1] = 0))
                      => sleepStage[k] = 3
          /\ \A a, b \in RawRemRows :
                ( /\ ConsecutiveRemRuns(a, b)
                  /\ b - a - 1 < MergeGap
                  /\ \A j \in (a + 1)..(b - 1) : sleepStage[j] # 2 )
                   => \A j \in a..b : REMepisode[j] = 1
    /\ pc = "done" =>
          \A k \in Rows : sleepStageConsolidated[k] \in {1, 2, 3}

\* REM, 39 unscored samples, REM: the run completes and the gap of stage 0
\* is merged into the REM episode
C28_Witness ==
    /\ pc = "done"
    /\ pass = 1
    /\ sleepStage = Table(<< <<3, 1>>, <<0, 39>>, <<3, 1>> >>)
    /\ sleepStageConsolidated = Table(<< <<3, 41>> >>)


\* first rows of the maximal runs of equal consecutive raw stages
RunStartRows == {k \in Rows : k = 1 \/ sleepStage[k] # sleepStage[k - 1]}

\* last row of the maximal run that starts at row a
RunEndRow(a) ==
    CHOOSE b \in a..Len(sleepStage) :
       /\ \A j \in a..b : sleepStage[j] = sleepStage[a]
       /\ (b = Len(sleepStage) \/ sleepStage[b + 1] # sleepStage[a])

\* C29: get_bout_durations returns exactly one bout per maximal run of equal
\* consecutive sleepStage values, in order, each with the stage of its run
\* and the duration run length / sampling_rate, so every bout has a positive
\* duration.
C29_OneBoutPerRun ==
    pc = "bouts_done" =>
       /\ Len(bouts) = Cardinality(RunStartRows)
       /\ \A a \in RunStartRows :
             LET j == Cardinality({x \in RunStartRows : x <= a})
             IN  /\ j <= Len(bouts)
                 /\ bouts[j] = [BoutDuration |->
                                   Quotient(RunEndRow(a) - a + 1, sampling_rate),
                                SleepStage |-> sleepStage[a]]
       /\ \A j \in 1..Len(bouts) : bouts[j].BoutDuration[1] > 0

\* C30: consolidate_sleep_stages resolves the flags by last write, whatever
\* the flags hold: REMepisode = 1 gives code 3 regardless of the other flags,
\* NREMepisode = 1 with REMepisode = 0 gives 2, WAKEepisode = 1 alone gives
\* 1, and a sample with no flag set gets 0.
C30_LastWriteWins ==
    [][ pc = "consolidate" =>
           \A k \in Rows :
              /\ REMepisode[k] = 1 => sleepStageConsolidated'[k] = 3
              /\ (NREMepisode[k] = 1 /\ REMepisode[k] = 0)
                    => sleepStageConsolidated'[k] = 2
              /\ (WAKEepisode[k] = 1 /\ NREMepisode[k] = 0 /\ REMepisode[k] = 0)
                    => sleepStageConsolidated'[k] = 1
              /\ (WAKEepisode[k] = 0 /\ NREMepisode[k] = 0 /\ REMepisode[k] = 0)
                    => sleepStageConsolidated'[k] = 0 ]_vars

\* consolidate_sleep_stages has run on a three-row frame of arbitrary flags
\* and left a sample without code next to a REM and an NREM sample
C30_Witness ==
    /\ pc = "done"
    /\ sleepStage = <<1, 1, 1>>
    /\ sleepStageConsolidated = <<0, 3, 2>>

====
